---- MODULE Spec2Model ----
(***************************************************************************)
(* The Todo/User REST API: two tables (User, Todo) behind an ORM, a        *)
(* service per table and a controller per service.  A request is a         *)
(* sequence of storage calls; each storage call is one atomic step of the  *)
(* storage engine, and requests of different slots interleave between      *)
(* their calls.  The synchronous code around a call (the branch before it, *)
(* the exception after it) belongs to the step of that call.  A field of   *)
(* a request body is drawn at the step where the code first reads it.      *)
(***************************************************************************)
EXTENDS Integers, Sequences, FiniteSets, TLC

VARIABLES
    users,      \* the User table: stored id -> row
    todos,      \* the Todo table: stored id -> row
    userSeq,    \* sqlite_sequence of User: the largest id ever handed out
    todoSeq,    \* sqlite_sequence of Todo
    clock,      \* the time the storage layer stamps rows with
    reqs,       \* per slot, the request in flight and the call it waits at
    resp,       \* the response a client has just received (NoResp: none)
    issued,     \* history: the ids successful Todo creates have returned
    scen        \* history: how far the run follows the client scenario

vars == <<users, todos, userSeq, todoSeq, clock, reqs, resp, issued, scen>>

(* ------------------------------ bounds --------------------------------- *)

\* Highest User id the AUTOINCREMENT sequence may hand out.
MaxUsers == 2
\* Highest Todo id the AUTOINCREMENT sequence may hand out.
MaxTodos == 2
\* Highest value of the clock that stamps createdAt / updatedAt.
MaxClock == 1

\* Requests that may be in flight at the same time.
Slots == {"r1", "r2"}
\* The slot of a client that sends one request at a time.
Client == {"r1"}
Titles == {"Buy milk", "X"}
Names == {"Ann"}

\* Ids a request may name: each is stored at some times and not at others.
UserIdArgs == 1..MaxUsers
TodoIdArgs == 1..MaxTodos

(* --------------------------- values ------------------------------------ *)

\* An optional value: <<>> when absent (undefined), <<v>> when present.
Opt(S) == {<<>>} \cup {<<v>> : v \in S}
Has(o) == o # <<>>

HTTP_CREATED == 201
HTTP_OK == 200
HTTP_BAD_REQUEST == 400
HTTP_NOT_FOUND == 404
HTTP_INTERNAL == 500

\* The fields a request body may carry, each optional.
NoDto == [title |-> <<>>, completed |-> <<>>, userId |-> <<>>, name |-> <<>>]

\* A slot: the request in flight (op, its parsed id, the userId of its body),
\* the call it waits at, the calls it has issued, and for the record the path
\* parameter as sent and the property of its body no DTO declares.
Idle == [op |-> "idle", pc |-> "idle", id |-> 0, userId |-> <<>>, calls |-> 0,
         path |-> <<>>, unknown |-> <<>>]
\* A response: the request it answers (op, id, dto, include), the HTTP status, the
\* records of the body, and for the record: the storage calls the request
\* issued, the Todo ids its last call deleted, and the response the same
\* client held when it sent the request (prev, <<>> when none).  include is
\* the query parameter as sent, path and unknown are as in a slot.
NoResp ==
    [op |-> "none", id |-> 0, dto |-> NoDto, include |-> <<>>, status |-> 0, body |-> <<>>,
     calls |-> 0, gone |-> {}, prev |-> <<>>, path |-> <<>>, unknown |-> <<>>]

AllIdle == \A s \in Slots : reqs[s].op = "idle"

(* --------------------------- pipes ------------------------------------- *)

\* A path or query parameter arrives as a string, here a sequence of characters.
Digits == <<"0", "1", "2", "3", "4", "5", "6", "7", "8", "9">>
IsDigit(c) == \E d \in DOMAIN Digits : Digits[d] = c
DigitValue(c) == (CHOOSE d \in DOMAIN Digits : Digits[d] = c) - 1

\* The path a client writes for the id n (one digit).
PathOf(n) == <<Digits[n + 1]>>
\* Paths that are no integer.
BadPaths == {<<"a", "b", "c">>, <<"1", ".", "5">>}
\* The paths of the ids a request may name.
Paths(ids) == {PathOf(n) : n \in ids}

\* parseInt(value, 10) of a string of digits.
RECURSIVE ParseInt10(_)
ParseInt10(digits) ==
    IF digits = <<>> THEN 0
    ELSE 10 * ParseInt10(SubSeq(digits, 1, Len(digits) - 1)) + DigitValue(digits[Len(digits)])

\* The digits a string starts with.
RECURSIVE DigitPrefix(_)
DigitPrefix(path) ==
    IF path # <<>> /\ IsDigit(path[1]) THEN <<path[1]>> \o DigitPrefix(Tail(path)) ELSE <<>>

\* Mutant: a bare parseInt, which reads the digits a string starts with.
ParseIntLenient(path) ==
    IF DigitPrefix(path) # <<>> THEN <<ParseInt10(DigitPrefix(path))>> ELSE <<>>

\* ParseIntPipe: the value when the string is -?[0-9]+, else no value (400).
ParseIntPipe(path) ==
    LET neg == path # <<>> /\ path[1] = "-"
        digits == IF neg THEN Tail(path) ELSE path
    IN IF digits # <<>> /\ \A i \in DOMAIN digits : IsDigit(digits[i])
       THEN <<IF neg THEN 0 - ParseInt10(digits) ELSE ParseInt10(digits)>>
       ELSE <<>>

\* Property names a request body may carry.
BodyProps == {"title", "name", "priority"}
\* Query flags written out, and body properties, of a well-formed request.
Flags == {<<TRUE>>, <<FALSE>>}
NoProps == {<<>>}

\* The properties the DTO of an operation declares (PartialType keeps them).
Whitelist(op) ==
    IF op \in {"todoCreate", "todoUpdate"} THEN {"title", "completed", "userId"} ELSE {"name"}

\* For the record: prop when the DTO of op does not declare it.
Undeclared(op, prop) == IF Has(prop) /\ prop[1] \notin Whitelist(op) THEN prop ELSE <<>>

\* Mutant: whitelist alone, which drops an undeclared property silently.
StripNonWhitelisted == [whitelist |-> TRUE, transform |-> TRUE, forbidNonWhitelisted |-> FALSE]

\* new ValidationPipe({ whitelist, transform, forbidNonWhitelisted })
ValidationPipeOptions == [whitelist |-> TRUE, transform |-> TRUE, forbidNonWhitelisted |-> TRUE]

\* The ValidationPipe throws (400) on a body with the property prop.
Forbidden(op, prop) ==
    /\ ValidationPipeOptions.whitelist /\ ValidationPipeOptions.forbidNonWhitelisted
    /\ Has(prop) /\ prop[1] \notin Whitelist(op)

\* Mutant: a flag that is false unless the query parameter is true.
IncludeDefaultFalse(q) == q = <<TRUE>>
\* includeUser !== false
IncludeUser(q) == q # <<FALSE>>
\* includeTodos || false
IncludeTodos(q) == q = <<TRUE>>

(* --------------------------- storage layer ----------------------------- *)

\* Mutant: a DELETE without its WHERE clause empties the table.
WithoutAll(table, ids) == [k \in {} |-> table[k]]

\* A table is a function from the stored ids to the rows.
Without(table, ids) == [k \in DOMAIN table \ ids |-> table[k]]
WithRow(table, id, row) == [k \in DOMAIN table \cup {id} |-> IF k = id THEN row ELSE table[k]]

UserRow(id) == [id |-> id] @@ users[id]
TodoRow(id) == [id |-> id] @@ todos[id]

\* Mutant: a rowid without AUTOINCREMENT, one more than the largest stored id.
NextIdReused(seq, table) ==
    IF DOMAIN table = {} THEN 1
    ELSE (CHOOSE m \in DOMAIN table : \A k \in DOMAIN table : k <= m) + 1

\* Mutant: an insert that always takes the rowid 1 and replaces its row.
NextIdFirst(seq, table) == 1

\* Mutant: an allocator that hands out the lowest id no stored row has.
NextIdLowestFree(seq, table) ==
    CHOOSE k \in 1..(seq + 1) :
        k \notin DOMAIN table /\ \A j \in 1..(k - 1) : j \in DOMAIN table

\* AUTOINCREMENT: one more than the largest id the table ever held.
NextId(seq, table) == seq + 1

\* Mutant: no ON DELETE CASCADE, the Todos of a deleted User stay.
CascadeDeleteNone(uid) == todos
\* Mutant: the cascade deletes the Todos of every User.
CascadeDeleteAll(uid) == Without(todos, DOMAIN todos)

\* ON DELETE CASCADE of Todo_userId_fkey: the Todos a User's deletion leaves.
CascadeDelete(uid) == Without(todos, {t \in DOMAIN todos : todos[t].userId = uid})

\* Mutant: foreign_keys=OFF, the constraint is not enforced.
ForeignKeyOff(uid) == TRUE

\* Mutant: the constraint accepts every id the User sequence has handed out.
ForeignKeyEver(uid) == uid <= userSeq

\* Todo_userId_fkey with foreign_keys=ON: a Todo row may only name a stored User.
ForeignKeyOk(uid) == uid \in DOMAIN users

\* Mutant: the response shows the time of the read as updatedAt.
TodoViewNow(row, us, includeUser) ==
    [user |-> IF includeUser /\ row.userId \in DOMAIN us
              THEN <<[id |-> row.userId] @@ us[row.userId]>> ELSE <<>>,
     updatedAt |-> clock] @@ row

\* include: { user: true } over the table `us` (a join that finds no row
\* leaves the relation empty).
TodoView(row, us, includeUser) ==
    [user |-> IF includeUser /\ row.userId \in DOMAIN us
              THEN <<[id |-> row.userId] @@ us[row.userId]>> ELSE <<>>] @@ row

\* Mutant: the relation is read without its join condition, every Todo is embedded.
UserViewAll(row, ts, includeTodos) ==
    [todos |-> IF includeTodos
               THEN <<{[id |-> t] @@ ts[t] : t \in DOMAIN ts}>>
               ELSE <<>>] @@ row

\* include: { todos: true } over the table `ts`.
UserView(row, ts, includeTodos) ==
    [todos |-> IF includeTodos
               THEN <<{[id |-> t] @@ ts[t] : t \in {k \in DOMAIN ts : ts[k].userId = row.id}}>>
               ELSE <<>>] @@ row

\* Mutant: orderBy: { createdAt: 'asc' }.
OrderedAsc(S, table) ==
    {q \in [1..Cardinality(S) -> S] :
        /\ \A i, j \in 1..Cardinality(S) : i # j => q[i] # q[j]
        /\ \A i, j \in 1..Cardinality(S) :
              i < j => table[q[i]].createdAt <= table[q[j]].createdAt}

\* orderBy: { createdAt: 'desc' }: the orders of the ids in S the engine may
\* return (rows of equal createdAt come in any order).
OrderedDesc(S, table) ==
    {q \in [1..Cardinality(S) -> S] :
        /\ \A i, j \in 1..Cardinality(S) : i # j => q[i] # q[j]
        /\ \A i, j \in 1..Cardinality(S) :
              i < j => table[q[i]].createdAt >= table[q[j]].createdAt}

(* --------------------------- scenario observer ------------------------- *)

\* The requests of the client scenario, in order.
ScenReq == <<
    [op |-> "userCreate", id |-> 0, dto |-> [NoDto EXCEPT !.name = <<"Ann">>]],
    [op |-> "todoCreate", id |-> 0,
     dto |-> [NoDto EXCEPT !.title = <<"Buy milk">>, !.userId = <<1>>]],
    [op |-> "todoUpdate", id |-> 1, dto |-> [NoDto EXCEPT !.completed = <<TRUE>>]],
    [op |-> "userRemove", id |-> 1, dto |-> NoDto],
    [op |-> "todoFindOne", id |-> 1, dto |-> NoDto] >>

\* The value of scen once the run has left the scenario.
ScenOff == Len(ScenReq) + 1

\* The part of the body read so far agrees with the scenario's request.
ScenAgrees(q, k, full) ==
    /\ q.op = ScenReq[k].op
    /\ q.id = ScenReq[k].id
    /\ IF full THEN q.dto = ScenReq[k].dto
       ELSE \A f \in DOMAIN q.dto : Has(q.dto[f]) => q.dto[f] = ScenReq[k].dto[f]

\* scen = k: so far the client sent the first k requests of the scenario, one
\* after the other, each answered before the next, and nothing else ran.
ScenNext(isStart, done, full, q) ==
    IF scen = ScenOff \/ scen >= Len(ScenReq) THEN ScenOff
    ELSE IF isStart /\ ~AllIdle THEN ScenOff
    ELSE IF ~ScenAgrees(q, scen + 1, full) THEN ScenOff
    ELSE IF done THEN scen + 1 ELSE scen

(* --------------------------- request plumbing -------------------------- *)

\* Slot s is free and no client is looking at a response: a request may start.
Free(s) == reqs[s].op = "idle" /\ resp = NoResp
\* The request of slot s waits at the call pc of operation op.
At(s, op, pc) == reqs[s].op = op /\ reqs[s].pc = pc /\ resp = NoResp

\* The request of slot s answers: its response leaves, the slot is free again.
Respond(s, isStart, full, r) ==
    /\ resp' = [r EXCEPT !.prev = IF resp = NoResp THEN <<>>
                                  ELSE <<[resp EXCEPT !.prev = <<>>]>>,
                         !.path = IF isStart THEN r.path ELSE reqs[s].path,
                         !.unknown = IF isStart THEN r.unknown ELSE reqs[s].unknown]
    /\ reqs' = [reqs EXCEPT ![s] = Idle]
    /\ scen' = ScenNext(isStart, TRUE, full, r)

\* The request of slot s suspends at its next storage call.
Continue(s, isStart, q) ==
    /\ reqs' = [reqs EXCEPT ![s] = q]
    /\ scen' = ScenNext(isStart, FALSE, FALSE,
                        [op |-> q.op, id |-> q.id, dto |-> [NoDto EXCEPT !.userId = q.userId]])
    /\ UNCHANGED resp

Failure(op, id, dto, status, calls) ==
    [NoResp EXCEPT !.op = op, !.id = id, !.dto = dto, !.status = status, !.calls = calls]

\* Mutant: the relation a result embeds is fetched by one more storage call.
SuccessAfterJoin(op, id, dto, status, body, calls) ==
    [NoResp EXCEPT !.op = op, !.id = id, !.dto = dto, !.status = status, !.body = body,
                   !.calls = calls + 1]

\* A result of the storage layer, returned as the body.
Success(op, id, dto, status, body, calls) ==
    [NoResp EXCEPT !.op = op, !.id = id, !.dto = dto, !.status = status, !.body = body,
                   !.calls = calls]

\* The response r to a request sent with this path and this undeclared property.
Http(r, path, unknown) == [r EXCEPT !.path = path, !.unknown = unknown]

\* NotFoundException -> 404, BadRequestException -> 400.
NotFound(op, id, dto, calls) == Failure(op, id, dto, HTTP_NOT_FOUND, calls)
BadRequest(op, id, dto, calls) == Failure(op, id, dto, HTTP_BAD_REQUEST, calls)
\* Mutant: a filter that turns the storage layer's "record not found" into 404.
UnhandledAsNotFound(op, id, dto, calls) == Failure(op, id, dto, HTTP_NOT_FOUND, calls)
\* An error of the storage layer that no handler catches -> 500.
Unhandled(op, id, dto, calls) == Failure(op, id, dto, HTTP_INTERNAL, calls)

\* A pipe threw before the handler was called: 400, no storage call.
Rejected(op, path, unknown) == Http(BadRequest(op, 0, NoDto, 0), path, unknown)

\* Mutant: the existence check accepts every id a User ever had.
UserExistsEver(id) == id <= userSeq

\* const userExists = await this.prisma.user.findUnique({ where: { id } })
UserExists(id) == id \in DOMAIN users

db == <<users, todos, userSeq, todoSeq>>

\* Creates in flight that will still draw an id from the Todo sequence.
PendingTodoCreates == Cardinality({s \in Slots : reqs[s].op = "todoCreate"})

(* --------------------------- TodoService ------------------------------- *)

\* POST /todos: the ValidationPipe, then create up to its first await:
\* user.findUnique({ id: dto.userId }).
TodoCreateCheck(s, userId, prop) ==
    /\ Free(s)
    /\ todoSeq + PendingTodoCreates < MaxTodos
    /\ LET dto == [NoDto EXCEPT !.userId = <<userId>>]
           unknown == Undeclared("todoCreate", prop)
       IN IF Forbidden("todoCreate", prop)
          THEN Respond(s, TRUE, TRUE, Rejected("todoCreate", <<>>, unknown))
          ELSE IF UserExists(userId)
          THEN Continue(s, TRUE, [op |-> "todoCreate", pc |-> "write", id |-> 0,
                                  userId |-> <<userId>>, calls |-> 1,
                                  path |-> <<>>, unknown |-> unknown])
          ELSE Respond(s, TRUE, FALSE, Http(BadRequest("todoCreate", 0, dto, 1), <<>>, unknown))
    /\ UNCHANGED <<db, clock, issued>>

\* The row todo.create inserts: completed DEFAULT false, both stamps now.
NewTodo(dto) ==
    [title |-> dto.title[1],
     completed |-> IF Has(dto.completed) THEN dto.completed[1] ELSE FALSE,
     userId |-> dto.userId[1],
     createdAt |-> clock,
     updatedAt |-> clock]

\* create, second call: todo.create({ data: dto, include: { user: true } }).
TodoCreateWrite(s, title, completed) ==
    /\ At(s, "todoCreate", "write")
    /\ LET dto == [NoDto EXCEPT !.title = <<title>>, !.completed = completed,
                                !.userId = reqs[s].userId]
           id == NextId(todoSeq, todos)
           calls == reqs[s].calls + 1
       IN IF ForeignKeyOk(dto.userId[1])
          THEN /\ todos' = WithRow(todos, id, NewTodo(dto))
               /\ todoSeq' = id
               /\ issued' = issued \cup {id}
               /\ Respond(s, FALSE, TRUE,
                     Success("todoCreate", 0, dto, HTTP_CREATED,
                             <<TodoView([id |-> id] @@ NewTodo(dto), users, TRUE)>>, calls))
               /\ UNCHANGED <<users, userSeq, clock>>
          ELSE /\ Respond(s, FALSE, TRUE, Unhandled("todoCreate", 0, dto, calls))
               /\ UNCHANGED <<db, clock, issued>>

\* where: userId ? { userId } : undefined
FindAllWhere(userId) ==
    IF Has(userId) /\ userId[1] # 0
    THEN {t \in DOMAIN todos : todos[t].userId = userId[1]}
    ELSE DOMAIN todos

\* GET /todos: findAll(userId, includeUser !== false), which is
\* todo.findMany({ where, orderBy, include }).
TodoFindAll(s, userId, includeUser) ==
    /\ Free(s)
    /\ \E q \in OrderedDesc(FindAllWhere(userId), todos) :
          Respond(s, TRUE, TRUE,
              [Success("todoFindAll", 0, [NoDto EXCEPT !.userId = userId], HTTP_OK,
                       [i \in DOMAIN q |->
                           TodoView(TodoRow(q[i]), users, IncludeUser(includeUser))], 1)
                 EXCEPT !.include = includeUser])
    /\ UNCHANGED <<db, clock, issued>>

\* Mutant: findOne without its where clause answers with the first row.
FindOneTodoFirst(op, id, includeUser, calls) ==
    IF DOMAIN todos # {}
    THEN Success(op, id, NoDto, HTTP_OK,
                 <<TodoView(TodoRow(CHOOSE m \in DOMAIN todos : \A k \in DOMAIN todos : m <= k),
                            users, includeUser)>>, calls)
    ELSE NotFound(op, id, NoDto, calls)

\* Mutant: findOne without the null check answers 200 with nothing.
FindOneTodoUnchecked(op, id, includeUser, calls) ==
    Success(op, id, NoDto, HTTP_OK,
            IF id \in DOMAIN todos THEN <<TodoView(TodoRow(id), users, includeUser)>> ELSE <<>>,
            calls)

\* What findOne answers for id: the row, or NotFoundException.
FindOneTodo(op, id, includeUser, calls) ==
    IF id \in DOMAIN todos
    THEN Success(op, id, NoDto, HTTP_OK, <<TodoView(TodoRow(id), users, includeUser)>>, calls)
    ELSE NotFound(op, id, NoDto, calls)

\* What GET /todos/:id answers: the ParseIntPipe, then
\* findOne(id, includeUser !== false).
GetTodo(path, includeUser) ==
    IF Has(ParseIntPipe(path))
    THEN Http([FindOneTodo("todoFindOne", ParseIntPipe(path)[1], IncludeUser(includeUser), 1)
                  EXCEPT !.include = includeUser], path, <<>>)
    ELSE Rejected("todoFindOne", path, <<>>)

\* findOne: todo.findUnique({ where: { id }, include }).
TodoFindOne(s, path, includeUser) ==
    /\ Free(s)
    /\ Respond(s, TRUE, TRUE, GetTodo(path, includeUser))
    /\ UNCHANGED <<db, clock, issued>>

\* findOne again: a client that holds the response to its create reads the
\* Todo it names, and one that holds the response to its get sends the same
\* request again, at once, before anything else happens.
TodoFindOneAgain(s, includeUser) ==
    /\ reqs[s].op = "idle"
    /\ \/ resp.op = "todoCreate" /\ resp.status = HTTP_CREATED
       \/ resp.op = "todoFindOne" /\ resp.include = includeUser
    /\ Respond(s, TRUE, TRUE,
          GetTodo(IF resp.op = "todoCreate" THEN PathOf(resp.body[1].id) ELSE resp.path,
                  includeUser))
    /\ UNCHANGED <<db, clock, issued>>

\* Mutant: update looks up the User of its body before it looks up the Todo.
TodoUpdateFindUserFirst(s, path, userId, prop) ==
    /\ Free(s)
    /\ LET id == ParseIntPipe(path)
           unknown == Undeclared("todoUpdate", prop)
       IN IF ~Has(id) \/ Forbidden("todoUpdate", prop)
          THEN Respond(s, TRUE, TRUE, Rejected("todoUpdate", path, unknown))
          ELSE IF Has(userId) /\ ~UserExists(userId[1])
          THEN Respond(s, TRUE, FALSE,
                   Http(BadRequest("todoUpdate", id[1], [NoDto EXCEPT !.userId = userId], 1),
                        path, unknown))
          ELSE IF id[1] \in DOMAIN todos
          THEN Continue(s, TRUE, [op |-> "todoUpdate", pc |-> "found", id |-> id[1],
                                  userId |-> userId, calls |-> 1,
                                  path |-> path, unknown |-> unknown])
          ELSE Respond(s, TRUE, FALSE,
                   Http([FindOneTodo("todoUpdate", id[1], TRUE, 1) EXCEPT !.dto.userId = userId],
                        path, unknown))
    /\ UNCHANGED <<db, clock, issued>>

\* PATCH /todos/:id: the ParseIntPipe and the ValidationPipe, then update up
\* to its first await: this.findOne(id).
TodoUpdateFind(s, path, userId, prop) ==
    /\ Free(s)
    /\ LET id == ParseIntPipe(path)
           unknown == Undeclared("todoUpdate", prop)
       IN IF ~Has(id) \/ Forbidden("todoUpdate", prop)
          THEN Respond(s, TRUE, TRUE, Rejected("todoUpdate", path, unknown))
          ELSE IF id[1] \in DOMAIN todos
          THEN Continue(s, TRUE, [op |-> "todoUpdate", pc |-> "found", id |-> id[1],
                                  userId |-> userId, calls |-> 1,
                                  path |-> path, unknown |-> unknown])
          ELSE Respond(s, TRUE, FALSE,
                   Http([FindOneTodo("todoUpdate", id[1], TRUE, 1) EXCEPT !.dto.userId = userId],
                        path, unknown))
    /\ UNCHANGED <<db, clock, issued>>

\* Mutant: update without the check of the referenced User.
TodoUpdateUserCheckSkipped(s) ==
    /\ At(s, "todoUpdate", "found") /\ Has(reqs[s].userId)
    /\ Continue(s, FALSE, [reqs[s] EXCEPT !.pc = "write", !.calls = @ + 1])
    /\ UNCHANGED <<db, clock, issued>>

\* update, when dto.userId !== undefined: user.findUnique({ id: dto.userId }).
TodoUpdateUserCheck(s) ==
    /\ At(s, "todoUpdate", "found") /\ Has(reqs[s].userId)
    /\ LET dto == [NoDto EXCEPT !.userId = reqs[s].userId] IN
       IF UserExists(reqs[s].userId[1])
       THEN Continue(s, FALSE, [reqs[s] EXCEPT !.pc = "write", !.calls = @ + 1])
       ELSE Respond(s, FALSE, FALSE,
                BadRequest("todoUpdate", reqs[s].id, dto, reqs[s].calls + 1))
    /\ UNCHANGED <<db, clock, issued>>

\* @updatedAt: the ORM stamps updatedAt in the UPDATE it issues (the column has
\* no default and no trigger).  Data with a field always makes it issue one;
\* whether data without any field does is the ORM's choice (touch).
Stamps(dto, touch) == touch \/ \E f \in DOMAIN dto : Has(dto[f])

\* Mutant: a field the body leaves out is reset to its default (PUT, not PATCH).
UpdatedTodoReplaced(row, dto, touch) ==
    [title |-> IF Has(dto.title) THEN dto.title[1] ELSE row.title,
     completed |-> IF Has(dto.completed) THEN dto.completed[1] ELSE FALSE,
     userId |-> IF Has(dto.userId) THEN dto.userId[1] ELSE row.userId,
     createdAt |-> row.createdAt,
     updatedAt |-> IF Stamps(dto, touch) THEN clock ELSE row.updatedAt]

\* Mutant: the update stamps createdAt as well.
UpdatedTodoRestamped(row, dto, touch) ==
    [title |-> IF Has(dto.title) THEN dto.title[1] ELSE row.title,
     completed |-> IF Has(dto.completed) THEN dto.completed[1] ELSE row.completed,
     userId |-> IF Has(dto.userId) THEN dto.userId[1] ELSE row.userId,
     createdAt |-> IF Stamps(dto, touch) THEN clock ELSE row.createdAt,
     updatedAt |-> IF Stamps(dto, touch) THEN clock ELSE row.updatedAt]

\* Mutant: the update writes every field of the body but userId.
UpdatedTodoKeepsOwner(row, dto, touch) ==
    [title |-> IF Has(dto.title) THEN dto.title[1] ELSE row.title,
     completed |-> IF Has(dto.completed) THEN dto.completed[1] ELSE row.completed,
     userId |-> row.userId,
     createdAt |-> row.createdAt,
     updatedAt |-> IF Stamps(dto, touch) THEN clock ELSE row.updatedAt]

\* The row todo.update leaves: the fields of data that are present, updatedAt now.
UpdatedTodo(row, dto, touch) ==
    [title |-> IF Has(dto.title) THEN dto.title[1] ELSE row.title,
     completed |-> IF Has(dto.completed) THEN dto.completed[1] ELSE row.completed,
     userId |-> IF Has(dto.userId) THEN dto.userId[1] ELSE row.userId,
     createdAt |-> row.createdAt,
     updatedAt |-> IF Stamps(dto, touch) THEN clock ELSE row.updatedAt]

\* Mutant: the update writes field by field, and a userId the constraint
\* refuses fails it after title and completed have been written.
TodoUpdateWritePartial(s, title, completed, touch) ==
    /\ At(s, "todoUpdate", "write") \/ (At(s, "todoUpdate", "found") /\ ~Has(reqs[s].userId))
    /\ LET id == reqs[s].id
           dto == [NoDto EXCEPT !.title = title, !.completed = completed,
                                !.userId = reqs[s].userId]
           calls == reqs[s].calls + 1
       IN IF id \in DOMAIN todos
          THEN /\ todos' = WithRow(todos, id,
                      UpdatedTodo(todos[id],
                          IF Has(dto.userId) /\ ~ForeignKeyOk(dto.userId[1])
                          THEN [dto EXCEPT !.userId = <<>>] ELSE dto, touch))
               /\ Respond(s, FALSE, TRUE,
                     IF Has(dto.userId) /\ ~ForeignKeyOk(dto.userId[1])
                     THEN Unhandled("todoUpdate", id, dto, calls)
                     ELSE Success("todoUpdate", id, dto, HTTP_OK,
                             <<TodoView([id |-> id] @@ UpdatedTodo(todos[id], dto, touch), users, TRUE)>>,
                             calls))
               /\ UNCHANGED <<users, userSeq, todoSeq, clock, issued>>
          ELSE /\ Respond(s, FALSE, TRUE, Unhandled("todoUpdate", id, dto, calls))
               /\ UNCHANGED <<db, clock, issued>>

\* update, last call: todo.update({ where: { id }, data: dto, include: { user: true } }).
TodoUpdateWrite(s, title, completed, touch) ==
    /\ At(s, "todoUpdate", "write") \/ (At(s, "todoUpdate", "found") /\ ~Has(reqs[s].userId))
    /\ LET id == reqs[s].id
           dto == [NoDto EXCEPT !.title = title, !.completed = completed,
                                !.userId = reqs[s].userId]
           calls == reqs[s].calls + 1
       IN IF id \in DOMAIN todos /\ (Has(dto.userId) => ForeignKeyOk(dto.userId[1]))
          THEN /\ todos' = WithRow(todos, id, UpdatedTodo(todos[id], dto, touch))
               /\ Respond(s, FALSE, TRUE,
                     Success("todoUpdate", id, dto, HTTP_OK,
                             <<TodoView([id |-> id] @@ UpdatedTodo(todos[id], dto, touch), users, TRUE)>>,
                             calls))
               /\ UNCHANGED <<users, userSeq, todoSeq, clock, issued>>
          ELSE /\ Respond(s, FALSE, TRUE, Unhandled("todoUpdate", id, dto, calls))
               /\ UNCHANGED <<db, clock, issued>>

\* What DELETE /todos/:id does first: the ParseIntPipe, then remove up to its
\* first await: this.findOne(id).
DeleteTodo(s, isStart, path) ==
    LET id == ParseIntPipe(path) IN
    IF ~Has(id)
    THEN Respond(s, isStart, TRUE, Rejected("todoRemove", path, <<>>))
    ELSE IF id[1] \in DOMAIN todos
    THEN Continue(s, isStart, [op |-> "todoRemove", pc |-> "write", id |-> id[1],
                               userId |-> <<>>, calls |-> 1,
                               path |-> path, unknown |-> <<>>])
    ELSE Respond(s, isStart, TRUE, Http(FindOneTodo("todoRemove", id[1], TRUE, 1), path, <<>>))

TodoRemoveFind(s, path) ==
    /\ Free(s)
    /\ DeleteTodo(s, TRUE, path)
    /\ UNCHANGED <<db, clock, issued>>

\* remove again: a client that holds the response to its remove sends the
\* same request again at once.
TodoRemoveAgain(s) ==
    /\ reqs[s].op = "idle"
    /\ resp.op = "todoRemove" /\ resp.status = HTTP_OK
    /\ DeleteTodo(s, TRUE, resp.path)
    /\ UNCHANGED <<db, clock, issued>>

\* Mutant: a delete that is content when the row is already gone (deleteMany).
TodoRemoveWriteIdempotent(s) ==
    /\ At(s, "todoRemove", "write")
    /\ todos' = Without(todos, {reqs[s].id})
    /\ Respond(s, FALSE, TRUE,
          [Success("todoRemove", reqs[s].id, NoDto, HTTP_OK,
                   IF reqs[s].id \in DOMAIN todos
                   THEN <<TodoView(TodoRow(reqs[s].id), users, FALSE)>> ELSE <<>>,
                   reqs[s].calls + 1)
             EXCEPT !.gone = {reqs[s].id} \cap DOMAIN todos])
    /\ UNCHANGED <<users, userSeq, todoSeq, clock, issued>>

\* Mutant: a delete that waits while another request on the same id is in flight.
TodoRemoveWriteLocked(s) ==
    /\ At(s, "todoRemove", "write")
    /\ \A o \in Slots \ {s} : reqs[o].op = "idle" \/ reqs[o].id # reqs[s].id
    /\ LET id == reqs[s].id
           calls == reqs[s].calls + 1
       IN IF id \in DOMAIN todos
          THEN /\ todos' = Without(todos, {id})
               /\ Respond(s, FALSE, TRUE,
                     [Success("todoRemove", id, NoDto, HTTP_OK,
                              <<TodoView(TodoRow(id), users, FALSE)>>, calls)
                        EXCEPT !.gone = {id}])
               /\ UNCHANGED <<users, userSeq, todoSeq, clock, issued>>
          ELSE /\ Respond(s, FALSE, TRUE, Unhandled("todoRemove", id, NoDto, calls))
               /\ UNCHANGED <<db, clock, issued>>

\* remove, second call: todo.delete({ where: { id } }).
TodoRemoveWrite(s) ==
    /\ At(s, "todoRemove", "write")
    /\ LET id == reqs[s].id
           calls == reqs[s].calls + 1
       IN IF id \in DOMAIN todos
          THEN /\ todos' = Without(todos, {id})
               /\ Respond(s, FALSE, TRUE,
                     [Success("todoRemove", id, NoDto, HTTP_OK,
                              <<TodoView(TodoRow(id), users, FALSE)>>, calls)
                        EXCEPT !.gone = {id}])
               /\ UNCHANGED <<users, userSeq, todoSeq, clock, issued>>
          ELSE /\ Respond(s, FALSE, TRUE, Unhandled("todoRemove", id, NoDto, calls))
               /\ UNCHANGED <<db, clock, issued>>

(* --------------------------- UserService ------------------------------- *)

NewUser(dto) == [name |-> dto.name[1], createdAt |-> clock, updatedAt |-> clock]

\* create: user.create({ data: dto }).
UserCreate(s, name, prop) ==
    /\ Free(s)
    /\ userSeq < MaxUsers
    /\ LET dto == [NoDto EXCEPT !.name = <<name>>]
           id == NextId(userSeq, users)
           unknown == Undeclared("userCreate", prop)
       IN IF Forbidden("userCreate", prop)
          THEN /\ Respond(s, TRUE, TRUE, Rejected("userCreate", <<>>, unknown))
               /\ UNCHANGED <<users, userSeq>>
          ELSE /\ users' = WithRow(users, id, NewUser(dto))
               /\ userSeq' = id
               /\ Respond(s, TRUE, TRUE,
                      Http(Success("userCreate", 0, dto, HTTP_CREATED,
                                   <<UserView([id |-> id] @@ NewUser(dto), todos, FALSE)>>, 1),
                           <<>>, unknown))
    /\ UNCHANGED <<todos, todoSeq, clock, issued>>

\* findAll: user.findMany({ orderBy, include }).
UserFindAll(s, includeTodos) ==
    /\ Free(s)
    /\ \E q \in OrderedDesc(DOMAIN users, users) :
          Respond(s, TRUE, TRUE,
              [Success("userFindAll", 0, NoDto, HTTP_OK,
                       [i \in DOMAIN q |->
                           UserView(UserRow(q[i]), todos, IncludeTodos(includeTodos))], 1)
                 EXCEPT !.include = includeTodos])
    /\ UNCHANGED <<db, clock, issued>>

\* Mutant: findOne without the null check answers 200 with nothing.
FindOneUserUnchecked(op, id, includeTodos, calls) ==
    Success(op, id, NoDto, HTTP_OK,
            IF id \in DOMAIN users THEN <<UserView(UserRow(id), todos, includeTodos)>> ELSE <<>>,
            calls)

\* What findOne answers for id: the row, or NotFoundException.
FindOneUser(op, id, includeTodos, calls) ==
    IF id \in DOMAIN users
    THEN Success(op, id, NoDto, HTTP_OK, <<UserView(UserRow(id), todos, includeTodos)>>, calls)
    ELSE NotFound(op, id, NoDto, calls)

\* findOne: user.findUnique({ where: { id }, include }).
UserFindOne(s, path, includeTodos) ==
    /\ Free(s)
    /\ Respond(s, TRUE, TRUE,
          IF Has(ParseIntPipe(path))
          THEN Http([FindOneUser("userFindOne", ParseIntPipe(path)[1],
                                 IncludeTodos(includeTodos), 1)
                        EXCEPT !.include = includeTodos], path, <<>>)
          ELSE Rejected("userFindOne", path, <<>>))
    /\ UNCHANGED <<db, clock, issued>>

\* update, up to its first await: this.findOne(id).
UserUpdateFind(s, path, prop) ==
    /\ Free(s)
    /\ LET id == ParseIntPipe(path)
           unknown == Undeclared("userUpdate", prop)
       IN IF ~Has(id) \/ Forbidden("userUpdate", prop)
          THEN Respond(s, TRUE, TRUE, Rejected("userUpdate", path, unknown))
          ELSE IF id[1] \in DOMAIN users
          THEN Continue(s, TRUE, [op |-> "userUpdate", pc |-> "write", id |-> id[1],
                                  userId |-> <<>>, calls |-> 1,
                                  path |-> path, unknown |-> unknown])
          ELSE Respond(s, TRUE, FALSE,
                   Http(FindOneUser("userUpdate", id[1], FALSE, 1), path, unknown))
    /\ UNCHANGED <<db, clock, issued>>

\* The row user.update leaves.
UpdatedUser(row, dto, touch) ==
    [name |-> IF Has(dto.name) THEN dto.name[1] ELSE row.name,
     createdAt |-> row.createdAt,
     updatedAt |-> IF Stamps(dto, touch) THEN clock ELSE row.updatedAt]

\* update, second call: user.update({ where: { id }, data: dto }).
UserUpdateWrite(s, name, touch) ==
    /\ At(s, "userUpdate", "write")
    /\ LET id == reqs[s].id
           dto == [NoDto EXCEPT !.name = name]
           calls == reqs[s].calls + 1
       IN IF id \in DOMAIN users
          THEN /\ users' = WithRow(users, id, UpdatedUser(users[id], dto, touch))
               /\ Respond(s, FALSE, TRUE,
                     Success("userUpdate", id, dto, HTTP_OK,
                             <<UserView([id |-> id] @@ UpdatedUser(users[id], dto, touch), todos, FALSE)>>,
                             calls))
               /\ UNCHANGED <<todos, userSeq, todoSeq, clock, issued>>
          ELSE /\ Respond(s, FALSE, TRUE, Unhandled("userUpdate", id, dto, calls))
               /\ UNCHANGED <<db, clock, issued>>

\* remove, up to its first await: this.findOne(id).
UserRemoveFind(s, path) ==
    /\ Free(s)
    /\ LET id == ParseIntPipe(path) IN
       IF ~Has(id)
       THEN Respond(s, TRUE, TRUE, Rejected("userRemove", path, <<>>))
       ELSE IF id[1] \in DOMAIN users
       THEN Continue(s, TRUE, [op |-> "userRemove", pc |-> "write", id |-> id[1],
                               userId |-> <<>>, calls |-> 1,
                               path |-> path, unknown |-> <<>>])
       ELSE Respond(s, TRUE, TRUE, Http(FindOneUser("userRemove", id[1], FALSE, 1), path, <<>>))
    /\ UNCHANGED <<db, clock, issued>>

\* Mutant: a delete that answers with the record it once found when the row
\* is already gone.
UserRemoveWriteIdempotent(s) ==
    /\ At(s, "userRemove", "write")
    /\ users' = Without(users, {reqs[s].id})
    /\ todos' = CascadeDelete(reqs[s].id)
    /\ Respond(s, FALSE, TRUE,
          [Success("userRemove", reqs[s].id, NoDto, HTTP_OK,
                   IF reqs[s].id \in DOMAIN users
                   THEN <<UserView(UserRow(reqs[s].id), todos, FALSE)>> ELSE <<>>,
                   reqs[s].calls + 1)
             EXCEPT !.gone = DOMAIN todos \ DOMAIN CascadeDelete(reqs[s].id)])
    /\ UNCHANGED <<userSeq, todoSeq, clock, issued>>

\* remove, second call: user.delete({ where: { id } }), with the cascade.
UserRemoveWrite(s) ==
    /\ At(s, "userRemove", "write")
    /\ LET id == reqs[s].id
           calls == reqs[s].calls + 1
       IN IF id \in DOMAIN users
          THEN /\ users' = Without(users, {id})
               /\ todos' = CascadeDelete(id)
               /\ Respond(s, FALSE, TRUE,
                     [Success("userRemove", id, NoDto, HTTP_OK,
                              <<UserView(UserRow(id), todos, FALSE)>>, calls)
                        EXCEPT !.gone = DOMAIN todos \ DOMAIN CascadeDelete(id)])
               /\ UNCHANGED <<userSeq, todoSeq, clock, issued>>
          ELSE /\ Respond(s, FALSE, TRUE, Unhandled("userRemove", id, NoDto, calls))
               /\ UNCHANGED <<db, clock, issued>>

(* --------------------------- environment ------------------------------- *)

\* Time passes: the clock the storage layer stamps rows with never goes back.
Tick ==
    /\ clock < MaxClock
    /\ clock' = clock + 1
    /\ UNCHANGED <<db, reqs, resp, issued, scen>>

\* The client lets go of the response it holds.
Deliver ==
    /\ resp # NoResp
    /\ resp' = NoResp
    /\ UNCHANGED <<db, clock, reqs, issued, scen>>

(* --------------------------- specification ----------------------------- *)

\* The store as the migration leaves it: the default User, no Todo.
Init ==
    /\ users = [k \in {1} |-> [name |-> "Default User", createdAt |-> 0, updatedAt |-> 0]]
    /\ todos = [k \in {} |-> 0]
    /\ userSeq = 1
    /\ todoSeq = 0
    /\ clock = 0
    /\ reqs = [s \in Slots |-> Idle]
    /\ resp = NoResp
    /\ issued = {}
    /\ scen = 0

\* One storage call of one request of the slots S, the requests drawing their
\* paths beyond the ids from bad, their query flags from flags and the extra
\* property of their bodies from props.
Service(S, bad, flags, props) ==
    \/ \E s \in S, u \in UserIdArgs, x \in props : TodoCreateCheck(s, u, x)
    \/ \E s \in S, t \in Titles, c \in Opt(BOOLEAN) : TodoCreateWrite(s, t, c)
    \/ \E s \in S, u \in Opt(0..MaxUsers), i \in flags : TodoFindAll(s, u, i)
    \/ \E s \in S, p \in Paths(TodoIdArgs) \cup bad, i \in flags : TodoFindOne(s, p, i)
    \/ \E s \in S, i \in flags : TodoFindOneAgain(s, i)
    \/ \E s \in S, p \in Paths(TodoIdArgs) \cup bad, u \in Opt(UserIdArgs), x \in props :
          TodoUpdateFind(s, p, u, x)
    \/ \E s \in S : TodoUpdateUserCheck(s)
    \/ \E s \in S, t \in Opt(Titles), c \in Opt(BOOLEAN), w \in BOOLEAN :
          TodoUpdateWrite(s, t, c, w)
    \/ \E s \in S, p \in Paths(TodoIdArgs) \cup bad : TodoRemoveFind(s, p)
    \/ \E s \in S : TodoRemoveAgain(s)
    \/ \E s \in S : TodoRemoveWrite(s)
    \/ \E s \in S, n \in Names, x \in props : UserCreate(s, n, x)
    \/ \E s \in S, i \in flags : UserFindAll(s, i)
    \/ \E s \in S, p \in Paths(UserIdArgs) \cup bad, i \in flags : UserFindOne(s, p, i)
    \/ \E s \in S, p \in Paths(UserIdArgs) \cup bad, x \in props : UserUpdateFind(s, p, x)
    \/ \E s \in S, n \in Opt(Names), w \in BOOLEAN : UserUpdateWrite(s, n, w)
    \/ \E s \in S, p \in Paths(UserIdArgs) \cup bad : UserRemoveFind(s, p)
    \/ \E s \in S : UserRemoveWrite(s)
    \/ Deliver

\* Concurrent well-formed requests; the clock stands still.
Next == Service(Slots, {}, Flags, NoProps)

Spec == Init /\ [][Next]_vars

\* One well-formed request at a time, while time passes.
NextClock == Service(Client, {}, Flags, NoProps) \/ Tick

SpecClock == Init /\ [][NextClock]_vars

\* One request at a time, of any form; the clock stands still.
NextHttp == Service(Client, BadPaths, Opt(BOOLEAN), Opt(BodyProps))

SpecHttp == Init /\ [][NextHttp]_vars

\* Body properties that name a timestamp column.
StampProps == {"createdAt", "updatedAt"}

\* One request at a time, its body naming a timestamp column or not, while
\* time passes.
NextStamps == Service(Client, {}, Flags, Opt(StampProps)) \/ Tick

SpecStamps == Init /\ [][NextStamps]_vars

\* The storage call the request of slot s waits at is served.
StorageCall(s) ==
    \/ \E t \in Titles, c \in Opt(BOOLEAN) : TodoCreateWrite(s, t, c)
    \/ TodoUpdateUserCheck(s)
    \/ \E t \in Opt(Titles), c \in Opt(BOOLEAN), w \in BOOLEAN : TodoUpdateWrite(s, t, c, w)
    \/ TodoRemoveWrite(s)
    \/ \E n \in Opt(Names), w \in BOOLEAN : UserUpdateWrite(s, n, w)
    \/ UserRemoveWrite(s)

\* Concurrent well-formed requests with one body per operation and no query
\* flag; the clock stands still.
NextFair ==
    \/ \E s \in Slots, u \in UserIdArgs : TodoCreateCheck(s, u, <<>>)
    \/ \E s \in Slots : TodoCreateWrite(s, "X", <<>>)
    \/ \E s \in Slots : TodoFindAll(s, <<>>, <<>>)
    \/ \E s \in Slots, p \in Paths(TodoIdArgs) : TodoFindOne(s, p, <<>>)
    \/ \E s \in Slots : TodoFindOneAgain(s, <<>>)
    \/ \E s \in Slots, p \in Paths(TodoIdArgs), u \in Opt(UserIdArgs) :
          TodoUpdateFind(s, p, u, <<>>)
    \/ \E s \in Slots : TodoUpdateUserCheck(s)
    \/ \E s \in Slots : TodoUpdateWrite(s, <<>>, <<TRUE>>, TRUE)
    \/ \E s \in Slots, p \in Paths(TodoIdArgs) : TodoRemoveFind(s, p)
    \/ \E s \in Slots : TodoRemoveAgain(s)
    \/ \E s \in Slots : TodoRemoveWrite(s)
    \/ \E s \in Slots, n \in Names : UserCreate(s, n, <<>>)
    \/ \E s \in Slots : UserFindAll(s, <<>>)
    \/ \E s \in Slots, p \in Paths(UserIdArgs) : UserFindOne(s, p, <<>>)
    \/ \E s \in Slots, p \in Paths(UserIdArgs) : UserUpdateFind(s, p, <<>>)
    \/ \E s \in Slots, n \in Opt(Names) : UserUpdateWrite(s, n, TRUE)
    \/ \E s \in Slots, p \in Paths(UserIdArgs) : UserRemoveFind(s, p)
    \/ \E s \in Slots : UserRemoveWrite(s)
    \/ Deliver

\* The storage layer serves every call that stays pending, and a response that
\* has been produced is handed over.  A pending call is disabled only while a
\* response is being handed over, which is why its fairness is strong.
SpecFair ==
    /\ Init /\ [][NextFair]_vars
    /\ WF_vars(Deliver)
    /\ \A s \in Slots : SF_vars(StorageCall(s))

(* --------------------------- claims ------------------------------------ *)

\* This step answered a request.
Answered == resp' # resp /\ resp' # NoResp

\* C1: in every reachable state, under every interleaving of the requests,
\* every stored Todo is owned by a User that is stored: no orphan Todo.
C1_NoOrphanTodo == \A t \in DOMAIN todos : todos[t].userId \in DOMAIN users

\* User 1 has been removed with its Todos while a Todo of User 2 stays.
C1_Witness ==
    /\ 1 \notin DOMAIN users
    /\ todoSeq = MaxTodos
    /\ \E t \in DOMAIN todos : todos[t].userId = 2

\* C2: a Todo create whose userId is not the id of a stored User when the
\* request checks it goes no further: it answers 400 and both tables are as
\* they were; a create passes its check only with a stored User.
C2_CreateUnknownUser ==
    [][/\ \A s \in Slots :
             (reqs[s].op = "idle" /\ reqs'[s].op = "todoCreate")
                 => reqs'[s].userId[1] \in DOMAIN users
       /\ (Answered /\ resp'.op = "todoCreate" /\ resp'.calls = 1)
             => /\ resp'.dto.userId[1] \notin DOMAIN users
                /\ resp'.status = HTTP_BAD_REQUEST
                /\ todos' = todos /\ users' = users]_vars

\* A create naming a User that is not stored was refused while a Todo is stored.
C2_Witness ==
    /\ resp.op = "todoCreate" /\ resp.status = HTTP_BAD_REQUEST
    /\ resp.dto.userId[1] \notin DOMAIN users
    /\ DOMAIN todos # {}

\* C3 as stated: every Todo update whose body carries a userId that is not
\* the id of a stored User answers 400 and leaves every Todo unchanged.
C3_Original ==
    [][(Answered /\ resp'.op = "todoUpdate" /\ Has(resp'.dto.userId)
          /\ resp'.dto.userId[1] \notin DOMAIN users)
        => (resp'.status = HTTP_BAD_REQUEST /\ todos' = todos)]_vars

\* C3, amended: an update whose body carries a userId that is not stored when
\* the request checks it answers 400 if the targeted Todo is stored and 404
\* if it is not, and either way leaves every Todo and every User unchanged.
C3_UpdateUnknownUser ==
    [][/\ \A s \in Slots :
             (/\ reqs[s].op = "todoUpdate" /\ reqs[s].pc = "found"
              /\ Has(reqs[s].userId) /\ reqs[s].userId[1] \notin DOMAIN users
              /\ reqs'[s] # reqs[s])
                 => /\ resp'.op = "todoUpdate" /\ resp'.id = reqs[s].id
                    /\ resp'.status = HTTP_BAD_REQUEST
                    /\ todos' = todos /\ users' = users
       /\ (/\ Answered /\ resp'.op = "todoUpdate" /\ resp'.calls = 1
           /\ Has(resp'.dto.userId) /\ resp'.dto.userId[1] \notin DOMAIN users)
             => /\ resp'.id \notin DOMAIN todos
                /\ resp'.status = HTTP_NOT_FOUND
                /\ todos' = todos /\ users' = users]_vars

\* An update of a stored Todo was refused for its unknown userId.
C3_Witness ==
    /\ resp.op = "todoUpdate" /\ resp.status = HTTP_BAD_REQUEST
    /\ resp.id \in DOMAIN todos
    /\ resp.dto.userId[1] \notin DOMAIN users

\* C4: a Todo get, update or remove whose id is not the id of a stored Todo
\* when the request looks it up answers 404 and changes no table; an update
\* or a remove goes past its lookup only with a stored Todo.
C4_UnknownTodo ==
    [][/\ \A s \in Slots :
             (reqs[s].op = "idle" /\ reqs'[s].op \in {"todoUpdate", "todoRemove"})
                 => reqs'[s].id \in DOMAIN todos
       /\ (/\ Answered /\ resp'.op \in {"todoFindOne", "todoUpdate", "todoRemove"}
           /\ resp'.calls = 1 /\ resp'.id \notin DOMAIN todos)
             => (resp'.status = HTTP_NOT_FOUND /\ db' = db)]_vars

\* A remove of an id that is not stored answered 404 while another Todo is stored.
C4_Witness ==
    /\ resp.op = "todoRemove" /\ resp.status = HTTP_NOT_FOUND
    /\ resp.id \notin DOMAIN todos
    /\ DOMAIN todos # {}

\* C5: removing a User deletes that User, all of its Todos and no other Todo;
\* a deleted id is never stored again, and a get of an id that is not stored
\* answers 404, for Todos and for Users.
C5_CascadeRemove ==
    [][/\ (Answered /\ resp'.op = "userRemove" /\ resp'.status = HTTP_OK)
             => LET u == resp'.id
                    owned == {t \in DOMAIN todos : todos[t].userId = u}
                IN /\ u \in DOMAIN users
                   /\ users' = [k \in DOMAIN users \ {u} |-> users[k]]
                   /\ todos' = [t \in DOMAIN todos \ owned |-> todos[t]]
                   /\ resp'.gone = owned
       /\ \A t \in (1..todoSeq) \ DOMAIN todos : t \notin DOMAIN todos'
       /\ \A u \in (1..userSeq) \ DOMAIN users : u \notin DOMAIN users'
       /\ (Answered /\ resp'.op = "todoFindOne" /\ resp'.id \notin DOMAIN todos)
             => resp'.status = HTTP_NOT_FOUND
       /\ (Answered /\ resp'.op = "userFindOne" /\ resp'.id \notin DOMAIN users)
             => resp'.status = HTTP_NOT_FOUND]_vars

\* A User was removed with its one Todo while the Todo of another User stays.
C5_Witness ==
    /\ resp.op = "userRemove" /\ resp.status = HTTP_OK
    /\ Cardinality(resp.gone) = 1
    /\ DOMAIN todos # {}

\* C6: a Todo create that reaches its insert with a stored User answers 201,
\* with completed false unless the body supplies it and with an id above
\* every id an earlier create returned.
C6_CreateDefaultsAndIds ==
    [][(Answered /\ resp'.op = "todoCreate" /\ resp'.dto.userId[1] \in DOMAIN users)
        => /\ resp'.status = HTTP_CREATED
           /\ resp'.body[1].completed =
                 (IF Has(resp'.dto.completed) THEN resp'.dto.completed[1] ELSE FALSE)
           /\ \A i \in issued : resp'.body[1].id > i
           /\ resp'.body[1].id \in DOMAIN todos' \ DOMAIN todos]_vars

\* A create without completed got id 2 after Todo 1 had been deleted.
C6_Witness ==
    /\ resp.op = "todoCreate" /\ resp.status = HTTP_CREATED
    /\ ~Has(resp.dto.completed) /\ resp.body[1].completed = FALSE
    /\ resp.body[1].id = 2 /\ 1 \notin DOMAIN todos

\* What the client scenario answers, with firstUser the id POST /users returns:
\* 201 with that id and name Ann; 201 with Todo 1, "Buy milk", not completed,
\* owned by User 1; 200 with completed true; 200; 404.
ScenarioAnswers(firstUser) ==
    resp # NoResp =>
       /\ scen = 1 => /\ resp.status = HTTP_CREATED
                      /\ resp.body[1].id = firstUser /\ resp.body[1].name = "Ann"
       /\ scen = 2 => /\ resp.status = HTTP_CREATED
                      /\ resp.body[1].id = 1 /\ resp.body[1].title = "Buy milk"
                      /\ resp.body[1].completed = FALSE /\ resp.body[1].userId = 1
       /\ scen = 3 => /\ resp.status = HTTP_OK
                      /\ resp.body[1].id = 1 /\ resp.body[1].completed = TRUE
       /\ scen = 4 => resp.status = HTTP_OK
       /\ scen = 5 => resp.status = HTTP_NOT_FOUND

\* C7 as stated: from the migrated store, POST /users {name: "Ann"} answers 201
\* with id 1, POST /todos {title: "Buy milk", userId: 1} answers 201 with id 1,
\* completed false, userId 1, PATCH /todos/1 {completed: true} answers 200 with
\* completed true, DELETE /users/1 answers 200 and GET /todos/1 then answers 404.
C7_Original == ScenarioAnswers(1)

\* C7, amended: the same scenario, but POST /users answers 201 with id 2: the
\* migration has already stored the default User under id 1.
C7_Scenario == ScenarioAnswers(2)

\* The scenario ran to its end: GET /todos/1 answered 404 after DELETE /users/1.
C7_Witness == scen = 5 /\ resp.op = "todoFindOne" /\ resp.status = HTTP_NOT_FOUND

\* C8: a get that follows a successful create of the same client with no write
\* in between, on the id the create returned, answers 200 with the created
\* record's id, title, completed, userId and createdAt.
C8_RoundTrip ==
    (/\ resp.op = "todoFindOne" /\ Has(resp.prev)
     /\ resp.prev[1].op = "todoCreate" /\ resp.prev[1].status = HTTP_CREATED
     /\ resp.id = resp.prev[1].body[1].id)
      => /\ resp.status = HTTP_OK
         /\ \A f \in {"id", "title", "completed", "userId", "createdAt"} :
               resp.body[1][f] = resp.prev[1].body[1][f]

\* A Todo created as completed was read back after the clock had moved on.
C8_Witness ==
    /\ resp.op = "todoFindOne" /\ resp.status = HTTP_OK /\ Has(resp.prev)
    /\ resp.prev[1].op = "todoCreate" /\ resp.prev[1].status = HTTP_CREATED
    /\ resp.id = resp.prev[1].body[1].id
    /\ resp.body[1].completed = TRUE
    /\ resp.body[1].createdAt < clock

Reads == {"todoFindOne", "todoFindAll", "userFindOne", "userFindAll"}

\* C9: a Todo get, a Todo list, a User get and a User list change no table,
\* and a GET /todos/:id repeated by the client with no write in between
\* answers with the same status and the same content.
C9_ReadsChangeNothing ==
    [][/\ (Answered /\ resp'.op \in Reads) => db' = db
       /\ (/\ Answered /\ resp'.op = "todoFindOne" /\ Has(resp'.prev)
           /\ resp'.prev[1].op = "todoFindOne" /\ resp'.prev[1].id = resp'.id
           /\ resp'.prev[1].include = resp'.include)
             => /\ resp'.status = resp'.prev[1].status
                /\ resp'.body = resp'.prev[1].body]_vars

\* The same GET /todos/:id was answered twice, the second time later.
C9_Witness ==
    /\ resp.op = "todoFindOne" /\ resp.status = HTTP_OK /\ Has(resp.prev)
    /\ resp.prev[1].op = "todoFindOne" /\ resp.prev[1].id = resp.id
    /\ resp.prev[1].include = resp.include
    /\ resp.body[1].updatedAt < clock

C11_RemoveSnapshot ==
    [][/\ (Answered /\ resp'.op = "todoRemove" /\ resp'.status = HTTP_OK)
             => LET id == resp'.id
                IN /\ id \in DOMAIN todos
                   /\ resp'.body[1].id = id
                   /\ \A f \in DOMAIN todos[id] : resp'.body[1][f] = todos[id][f]
                   /\ todos' = [t \in DOMAIN todos \ {id} |-> todos[t]]
                   /\ users' = users
       /\ (/\ Answered /\ resp'.op = "todoRemove" /\ Has(resp'.prev)
           /\ resp'.prev[1].op = "todoRemove" /\ resp'.prev[1].status = HTTP_OK
           /\ resp'.prev[1].path = resp'.path)
             => (resp'.status = HTTP_NOT_FOUND /\ db' = db)
       /\ \A s \in Slots :
             (reqs[s].op = "idle" /\ reqs'[s].op = "todoRemove") => resp = NoResp]_vars

\* The second remove of a Todo that had been updated answered 404 while the
\* other Todo is still stored.
C11_Witness ==
    /\ resp.op = "todoRemove" /\ resp.status = HTTP_NOT_FOUND /\ Has(resp.prev)
    /\ resp.prev[1].op = "todoRemove" /\ resp.prev[1].status = HTTP_OK
    /\ resp.prev[1].path = resp.path
    /\ resp.prev[1].body[1].updatedAt > resp.prev[1].body[1].createdAt
    /\ DOMAIN todos # {}

\* The ids of the records a response lists.
ListedIds(r) == {r.body[i].id : i \in DOMAIN r.body}

\* C12 as stated: a Todo list given a userId (0 and ids of no stored User
\* included) answers with exactly the stored Todos of that owner, each once,
\* and a list given no userId answers with every stored Todo.
C12_Original ==
    resp.op = "todoFindAll"
      => /\ Len(resp.body) = Cardinality(ListedIds(resp))
         /\ ListedIds(resp) =
               (IF Has(resp.dto.userId)
                THEN {t \in DOMAIN todos : todos[t].userId = resp.dto.userId[1]}
                ELSE DOMAIN todos)

\* GET /todos?userId=0 answered with a Todo, whose owner is not 0.
C12_Witness ==
    /\ resp.op = "todoFindAll" /\ resp.dto.userId = <<0>>
    /\ resp.body # <<>> /\ resp.body[1].userId # 0

\* C13: in the answer of a Todo list and of a User list, of any two records
\* the one with the later creation time comes first.
C13_NewestFirst ==
    resp.op \in {"todoFindAll", "userFindAll"}
      => \A i, j \in DOMAIN resp.body :
            resp.body[i].createdAt > resp.body[j].createdAt => i < j

\* A Todo list answered with two Todos, the one created later first.
C13_Witness ==
    /\ resp.op = "todoFindAll" /\ Len(resp.body) = 2
    /\ resp.body[1].createdAt > resp.body[2].createdAt
    /\ resp.body[1].id > resp.body[2].id

\* C14: with the query parameter absent, true or false, GET /todos and
\* GET /todos/:id embed the owning User in every record unless includeUser
\* is false, and GET /users and GET /users/:id embed the list of the User's
\* Todos in every record only when includeTodos is true.
C14_IncludeFlags ==
    resp.status = HTTP_OK
      => /\ resp.op \in {"todoFindAll", "todoFindOne"}
              => \A i \in DOMAIN resp.body :
                    IF resp.include # <<FALSE>>
                    THEN /\ Has(resp.body[i].user)
                         /\ resp.body[i].user[1] = UserRow(resp.body[i].userId)
                    ELSE ~Has(resp.body[i].user)
         /\ resp.op \in {"userFindAll", "userFindOne"}
              => \A i \in DOMAIN resp.body :
                    IF resp.include = <<TRUE>>
                    THEN /\ Has(resp.body[i].todos)
                         /\ resp.body[i].todos[1] =
                               {TodoRow(t) : t \in {k \in DOMAIN todos :
                                                       todos[k].userId = resp.body[i].id}}
                    ELSE ~Has(resp.body[i].todos)

\* GET /todos/:id without a query parameter answered with the owner embedded.
C14_Witness ==
    /\ resp.op = "todoFindOne" /\ resp.status = HTTP_OK
    /\ resp.include = <<>> /\ Has(resp.body[1].user)

\* C15 as stated: no request issues more than two storage calls.
C15_Original == resp.calls <= 2 /\ \A s \in Slots : reqs[s].calls <= 2

\* C15, amended: a request issues at most two storage calls, except a Todo
\* update whose body carries a userId, which issues a third when the Todo and
\* the User are both found: findOne, user.findUnique, todo.update.
C15_StorageCalls ==
    /\ \A s \in Slots : reqs[s].calls <= 2
    /\ resp.calls <= 3
    /\ resp.calls = 3
         => /\ resp.op = "todoUpdate" /\ Has(resp.dto.userId)
            /\ resp.status \in {HTTP_OK, HTTP_INTERNAL}
    /\ (resp.op = "todoUpdate" /\ Has(resp.dto.userId) /\ resp.status = HTTP_OK)
         => resp.calls = 3

\* An update that reassigned a Todo answered after three storage calls.
C15_Witness ==
    /\ resp.op = "todoUpdate" /\ resp.status = HTTP_OK
    /\ Has(resp.dto.userId) /\ resp.calls = 3

\* Statuses of success and of failure.
Succeeded == {HTTP_OK, HTTP_CREATED}
Failed == {HTTP_BAD_REQUEST, HTTP_NOT_FOUND, HTTP_INTERNAL}

\* C16: under every interleaving, a request answers either with a success or
\* with a failure (400, 404, 500); the step in which it fails changes no row,
\* and a row changes only in the step in which a request succeeds, so a
\* request that fails has changed no row at all.
C16_FailureChangesNothing ==
    [][/\ Answered => resp'.status \in Succeeded \cup Failed
       /\ (Answered /\ resp'.status \in Failed) => (users' = users /\ todos' = todos)
       /\ (users' # users \/ todos' # todos)
             => (Answered /\ resp'.status \in Succeeded)]_vars

\* An update failed at its write (500) and the title of its body was not
\* written to the Todo, which is still stored.
C16_Witness ==
    /\ resp.op = "todoUpdate" /\ resp.status = HTTP_INTERNAL
    /\ resp.id \in DOMAIN todos
    /\ Has(resp.dto.title) /\ todos[resp.id].title # resp.dto.title[1]

\* The operations that name their target by id, per table.
TodoTargetOps == {"todoFindOne", "todoUpdate", "todoRemove"}
UserTargetOps == {"userFindOne", "userUpdate", "userRemove"}

\* This step answered a request after a storage call on the request's target
\* (its lookup or its write, not the lookup of the User a body names) that
\* found the target absent from its table.
ActedOnAbsentTarget ==
    /\ Answered /\ resp'.calls >= 1
    /\ ~(resp'.op = "todoUpdate" /\ Has(resp'.dto.userId) /\ resp'.calls = 2)
    /\ \/ resp'.op \in TodoTargetOps /\ resp'.id \notin DOMAIN todos
       \/ resp'.op \in UserTargetOps /\ resp'.id \notin DOMAIN users

\* C17 as stated: under every interleaving, a get, update or remove whose
\* target is absent from its table when the request acts on it answers 404.
C17_Original == [][ActedOnAbsentTarget => resp'.status = HTTP_NOT_FOUND]_vars

\* C17, amended: such a request answers 404 when its existence check finds the
\* target absent; when the target is deleted after the check, the write finds
\* it absent and the request answers 500; either way no table changes.
C17_AbsentTarget ==
    [][ActedOnAbsentTarget
        => /\ resp'.status = (IF resp'.calls = 1 THEN HTTP_NOT_FOUND ELSE HTTP_INTERNAL)
           /\ db' = db]_vars

\* A User update answered 500: the User was removed after the update's check.
C17_Witness ==
    /\ resp.op = "userUpdate" /\ resp.status = HTTP_INTERNAL
    /\ resp.id \notin DOMAIN users /\ resp.calls = 2

\* The Todo update or remove of slot s has passed its existence check and
\* the row it found has been deleted since.
RowDeletedAfterCheck(s) ==
    /\ reqs[s].op \in {"todoUpdate", "todoRemove"}
    /\ reqs[s].id \notin DOMAIN todos

\* C18: a Todo update or remove can be past its existence check when its row
\* is deleted; the row was stored when the request checked, nothing stops the
\* request, and the write it then issues finds no row: it fails with 500 and
\* changes nothing (an update that first looks up the User of its body may
\* answer 400 there instead).
C18_ReadThenWriteRace ==
    [][\A s \in Slots :
          (RowDeletedAfterCheck(s) /\ reqs'[s] # reqs[s])
             => /\ reqs[s].id \in issued /\ reqs[s].calls >= 1
                /\ db' = db
                /\ \/ /\ reqs[s].op = "todoUpdate" /\ reqs[s].pc = "found"
                      /\ Has(reqs[s].userId)
                      /\ \/ RowDeletedAfterCheck(s)'
                         \/ Answered /\ resp'.status = HTTP_BAD_REQUEST
                   \/ /\ Answered /\ resp'.op = reqs[s].op /\ resp'.id = reqs[s].id
                      /\ resp'.status = HTTP_INTERNAL
                      /\ resp'.calls = reqs[s].calls + 1]_vars

\* An update passed its check, a concurrent remove deleted the Todo (no User
\* was ever deleted, so no cascade did), and the update's write answered 500.
C18_Witness ==
    /\ resp.op = "todoUpdate" /\ resp.status = HTTP_INTERNAL
    /\ ~Has(resp.dto.userId) /\ resp.calls = 2
    /\ resp.id \in issued /\ resp.id \notin DOMAIN todos
    /\ DOMAIN users = 1..userSeq

\* C19: a request whose body carries a property its DTO does not declare is
\* answered 400 without a storage call and without a change to any table,
\* and no request with such a body is ever in flight in a service.
C19_UnknownBodyField ==
    [][/\ (Answered /\ Has(resp'.unknown))
             => /\ resp'.status = HTTP_BAD_REQUEST /\ resp'.calls = 0
                /\ db' = db
       /\ \A s \in Slots : ~Has(reqs'[s].unknown)]_vars

\* PATCH of a stored Todo with the property priority in its body answered 400.
C19_Witness ==
    /\ resp.op = "todoUpdate" /\ resp.status = HTTP_BAD_REQUEST
    /\ resp.unknown = <<"priority">> /\ resp.calls = 0
    /\ Has(ParseIntPipe(resp.path)) /\ ParseIntPipe(resp.path)[1] \in DOMAIN todos

\* The path is a decimal numeral: digits, after an optional sign.
IsInteger(path) ==
    /\ path # <<>>
    /\ path[1] \in {"-"} \cup {Digits[d] : d \in DOMAIN Digits}
    /\ \A i \in 2..Len(path) : path[i] \in {Digits[d] : d \in DOMAIN Digits}
    /\ path # <<"-">>

\* C20: a get, update or remove of either controller whose path id is no
\* integer is answered 400 without a storage call and without a change to
\* any table, and no request with such a path is ever in flight in a service.
C20_NonIntegerId ==
    [][/\ (Answered /\ resp'.path # <<>> /\ ~IsInteger(resp'.path))
             => /\ resp'.op \in TodoTargetOps \cup UserTargetOps
                /\ resp'.status = HTTP_BAD_REQUEST /\ resp'.calls = 0
                /\ db' = db
       /\ \A s \in Slots : reqs'[s].path # <<>> => IsInteger(reqs'[s].path)]_vars

\* DELETE /users/1.5 answered 400 while User 1 is stored.
C20_Witness ==
    /\ resp.op = "userRemove" /\ resp.status = HTTP_BAD_REQUEST
    /\ resp.path = <<"1", ".", "5">> /\ resp.calls = 0
    /\ 1 \in DOMAIN users

\* The rows of a table whose updatedAt is not before their createdAt.
StampsOrdered(table) == \A k \in DOMAIN table : table[k].updatedAt >= table[k].createdAt
\* From table to table', no stored row changed its createdAt, every new row
\* carries the time `now` in both stamps and every changed row in updatedAt.
StampedBySystem(table, table2, now) ==
    \A k \in DOMAIN table2 :
       IF k \in DOMAIN table
       THEN /\ table2[k].createdAt = table[k].createdAt
            /\ table2[k] # table[k] => table2[k].updatedAt = now
       ELSE table2[k].createdAt = now /\ table2[k].updatedAt = now

\* C21: while the clock never goes back, every stored User and Todo has
\* updatedAt >= createdAt, createdAt never changes after the insert, both
\* stamps are the time of the write, and a body that names createdAt or
\* updatedAt is answered 400 without a storage call and changes nothing.
C21_SystemTimestamps ==
    [][/\ clock' >= clock
       /\ StampsOrdered(users) /\ StampsOrdered(todos)
       /\ StampsOrdered(users') /\ StampsOrdered(todos')
       /\ StampedBySystem(users, users', clock) /\ StampedBySystem(todos, todos', clock)
       /\ (Answered /\ Has(resp'.unknown))
             => (resp'.status = HTTP_BAD_REQUEST /\ resp'.calls = 0 /\ db' = db)
       /\ \A s \in Slots : ~Has(reqs'[s].unknown)]_vars

\* A PATCH whose body names updatedAt was answered 400, on a Todo that an
\* earlier update had stamped after its creation.
C21_Witness ==
    /\ resp.op = "todoUpdate" /\ resp.status = HTTP_BAD_REQUEST
    /\ resp.unknown = <<"updatedAt">>
    /\ Has(ParseIntPipe(resp.path)) /\ ParseIntPipe(resp.path)[1] \in DOMAIN todos
    /\ todos[ParseIntPipe(resp.path)[1]].updatedAt > todos[ParseIntPipe(resp.path)[1]].createdAt

\* From table to table2 the stored ids change by one insert under an id that
\* was not stored, or by deletes, never by both: no row moves to another id,
\* and an insert replaces no row.
IdsKept(table, table2) ==
    LET new == DOMAIN table2 \ DOMAIN table
        old == DOMAIN table \ DOMAIN table2
    IN /\ Cardinality(new) <= 1
       /\ new # {} => (old = {} /\ \A k \in DOMAIN table : table2[k] = table[k])

\* C22: under every interleaving, a create stores its record under an id no
\* stored record has and answers with that id, so no two stored Users and no
\* two stored Todos share an id; an update answers with the id it was sent
\* and leaves the stored ids as they are: no operation changes the id of a
\* stored record.
C22_UniqueIds ==
    [][/\ IdsKept(users, users') /\ IdsKept(todos, todos')
       /\ (Answered /\ resp'.op = "todoCreate" /\ resp'.status = HTTP_CREATED)
             => /\ resp'.body[1].id \notin DOMAIN todos
                /\ DOMAIN todos' = DOMAIN todos \cup {resp'.body[1].id}
       /\ (Answered /\ resp'.op = "userCreate" /\ resp'.status = HTTP_CREATED)
             => /\ resp'.body[1].id \notin DOMAIN users
                /\ DOMAIN users' = DOMAIN users \cup {resp'.body[1].id}
       /\ (Answered /\ resp'.op \in {"todoUpdate", "userUpdate"} /\ resp'.status = HTTP_OK)
             => /\ resp'.body[1].id = resp'.id
                /\ DOMAIN todos' = DOMAIN todos /\ DOMAIN users' = DOMAIN users]_vars

\* Two creates were in flight together: the first has stored its Todo, the
\* second is about to store its own beside it.
C22_Witness ==
    /\ resp.op = "todoCreate" /\ resp.status = HTTP_CREATED
    /\ resp.body[1].id \in DOMAIN todos
    /\ \E s \in Slots : reqs[s].op = "todoCreate" /\ reqs[s].pc = "write"

\* C23: with one request at a time, a User get, update or remove whose id is
\* not the id of a stored User answers 404 and changes no table; a User
\* update on a stored id answers 200, sets the name its body carries (keeps
\* it otherwise), keeps the id and createdAt, moves updatedAt to the time of
\* the write (an empty body may leave it), and changes no other User, no
\* Todo and no sequence.
C23_UserNotFound ==
    [][/\ (Answered /\ resp'.op \in UserTargetOps /\ resp'.id \notin DOMAIN users)
             => (resp'.status = HTTP_NOT_FOUND /\ db' = db)
       /\ (Answered /\ resp'.op \in {"userFindOne", "userRemove"} /\ resp'.id \in DOMAIN users)
             => resp'.status = HTTP_OK
       /\ (Answered /\ resp'.op = "userUpdate" /\ resp'.id \in DOMAIN users)
             => LET id == resp'.id
                    dto == resp'.dto
                IN /\ resp'.status = HTTP_OK
                   /\ DOMAIN users' = DOMAIN users
                   /\ users'[id].name = (IF Has(dto.name) THEN dto.name[1] ELSE users[id].name)
                   /\ users'[id].createdAt = users[id].createdAt
                   /\ IF dto = NoDto
                      THEN users'[id].updatedAt \in {users[id].updatedAt, clock}
                      ELSE users'[id].updatedAt = clock
                   /\ \A u \in DOMAIN users \ {id} : users'[u] = users[u]
                   /\ todos' = todos /\ userSeq' = userSeq /\ todoSeq' = todoSeq
                   /\ resp'.body[1].id = id
                   /\ \A f \in DOMAIN users'[id] : resp'.body[1][f] = users'[id][f]]_vars

\* An update of a User that had been removed answered 404 while another
\* User and its Todo are stored.
C23_Witness ==
    /\ resp.op = "userUpdate" /\ resp.status = HTTP_NOT_FOUND
    /\ resp.id \notin DOMAIN users /\ resp.id <= userSeq
    /\ DOMAIN users # {} /\ DOMAIN todos # {}

\* C24: with one request at a time, a Todo update looks up the Todo before
\* the User its body names: when the userId is not the id of a stored User,
\* the update answers 404 after one storage call if the Todo is not stored
\* either, and 400 after two if the Todo is stored; no 400 is answered before
\* the Todo was found, and neither answer changes a table.
C24_TodoBeforeUser ==
    [][/\ (/\ Answered /\ resp'.op = "todoUpdate"
           /\ Has(resp'.dto.userId) /\ resp'.dto.userId[1] \notin DOMAIN users)
             => /\ IF resp'.id \notin DOMAIN todos
                   THEN resp'.status = HTTP_NOT_FOUND /\ resp'.calls = 1
                   ELSE resp'.status = HTTP_BAD_REQUEST /\ resp'.calls = 2
                /\ db' = db
       /\ (Answered /\ resp'.op = "todoUpdate" /\ resp'.status = HTTP_BAD_REQUEST)
             => (resp'.calls = 2 /\ resp'.id \in DOMAIN todos)]_vars

\* An update of a Todo that is not stored, naming a User that is not stored,
\* answered 404 while another Todo is stored.
C24_Witness ==
    /\ resp.op = "todoUpdate" /\ resp.status = HTTP_NOT_FOUND
    /\ resp.id \notin DOMAIN todos
    /\ Has(resp.dto.userId) /\ resp.dto.userId[1] \notin DOMAIN users
    /\ DOMAIN todos # {}

\* The operations that answer with Todos, and those that answer with Users.
TodoOps == {"todoCreate", "todoUpdate", "todoFindOne", "todoFindAll", "todoRemove"}
UserOps == {"userCreate", "userUpdate", "userFindOne", "userFindAll", "userRemove"}

\* C25: in every successful response, a Todo that embeds a User embeds the
\* stored User whose id is the Todo's userId, and a create, an update and a
\* get or list with includeUser true embed one in every Todo; a User that
\* embeds Todos embeds exactly the stored Todos whose userId is its id, and
\* a get or list with includeTodos true embeds them in every User.
C25_EmbeddedRelations ==
    resp.status \in Succeeded
      => /\ resp.op \in TodoOps
              => \A i \in DOMAIN resp.body :
                    /\ Has(resp.body[i].user)
                          => /\ resp.body[i].userId \in DOMAIN users
                             /\ resp.body[i].user[1] = UserRow(resp.body[i].userId)
                    /\ (\/ resp.op \in {"todoCreate", "todoUpdate"}
                        \/ resp.op \in {"todoFindOne", "todoFindAll"} /\ resp.include = <<TRUE>>)
                          => Has(resp.body[i].user)
         /\ resp.op \in UserOps
              => \A i \in DOMAIN resp.body :
                    /\ Has(resp.body[i].todos)
                          => resp.body[i].todos[1] =
                                {TodoRow(t) : t \in {k \in DOMAIN todos :
                                                        todos[k].userId = resp.body[i].id}}
                    /\ (resp.op \in {"userFindOne", "userFindAll"} /\ resp.include = <<TRUE>>)
                          => Has(resp.body[i].todos)

\* A User list with includeTodos answered with two Users, each with the one
\* Todo it owns.
C25_Witness ==
    /\ resp.op = "userFindAll" /\ resp.status = HTTP_OK /\ resp.include = <<TRUE>>
    /\ Len(resp.body) = 2
    /\ \A i \in DOMAIN resp.body : Cardinality(resp.body[i].todos[1]) = 1

\* The request of slot s has been accepted and has not answered yet.
Pending(s) == reqs[s].op # "idle"
\* The place of a call in its operation.
PcRank(pc) == CASE pc = "idle" -> 0 [] pc = "found" -> 1 [] pc = "write" -> 2

\* A step of the request of slot s: it is accepted and suspends at its second
\* call, or answers at once; it issues its next call, further on in its
\* operation; or it answers after that call.  Each step counts one call.
OneCallPerStep(s) ==
    reqs'[s] # reqs[s]
      => IF ~Pending(s)
         THEN reqs'[s].calls = 1
         ELSE IF Pending(s)'
         THEN /\ reqs'[s].op = reqs[s].op /\ reqs'[s].id = reqs[s].id
              /\ reqs'[s].calls = reqs[s].calls + 1
              /\ PcRank(reqs'[s].pc) > PcRank(reqs[s].pc)
              /\ resp' = resp
         ELSE /\ Answered
              /\ resp'.op = reqs[s].op /\ resp'.id = reqs[s].id
              /\ resp'.calls = reqs[s].calls + 1

\* C26: with the storage layer serving every pending call and every response
\* handed over, every accepted request eventually answers; it answers once,
\* each of its steps is one storage call further on in its operation (none
\* is issued twice), a step moves one request only, and the call a request
\* waits at can be served whatever the other requests do.
C26_EveryRequestAnswers ==
    /\ \A s \in Slots : Pending(s) ~> ~Pending(s)
    /\ [](\A s \in Slots : (Pending(s) /\ resp = NoResp) => ENABLED <<StorageCall(s)>>_vars)
    /\ [][/\ \A s \in Slots : OneCallPerStep(s)
          /\ \A s, o \in Slots : s # o => (reqs'[s] = reqs[s] \/ reqs'[o] = reqs[o])
          /\ Answered => \E s \in Slots : reqs'[s] = Idle /\ (Pending(s) \/ resp'.calls <= 1)]_vars

\* An update answered after its three storage calls while the request of the
\* other slot is still waiting at its own call.
C26_Witness ==
    /\ resp.op = "todoUpdate" /\ resp.status = HTTP_OK /\ resp.calls = 3
    /\ \E s \in Slots : Pending(s)

\* The Todo create or update of slot s has passed the check of the User its
\* body names, and that User has been deleted since.
UserDeletedAfterCheck(s) ==
    /\ reqs[s].op \in {"todoCreate", "todoUpdate"} /\ reqs[s].pc = "write"
    /\ Has(reqs[s].userId) /\ reqs[s].userId[1] \notin DOMAIN users

\* C27: when the User a Todo create or update names is removed after the
\* request's check and before its write, the write is refused: the request
\* answers with a failure (500), no Todo is inserted or changed, and in every
\* state every stored Todo names a stored User.
C27_ForeignKeyRace ==
    [][/\ \A s \in Slots :
             (UserDeletedAfterCheck(s) /\ reqs'[s] # reqs[s])
                => /\ reqs[s].userId[1] <= userSeq
                   /\ Answered /\ resp'.op = reqs[s].op /\ resp'.id = reqs[s].id
                   /\ resp'.status = HTTP_INTERNAL
                   /\ db' = db
       /\ \A t \in DOMAIN todos' : todos'[t].userId \in DOMAIN users']_vars

\* A create passed its check, a concurrent remove deleted the User, and the
\* insert was refused: no Todo of that User is stored, another User's is.
C27_Witness ==
    /\ resp.op = "todoCreate" /\ resp.status = HTTP_INTERNAL /\ resp.calls = 2
    /\ resp.dto.userId[1] \notin DOMAIN users
    /\ DOMAIN todos # {}

\* The table a remove deletes from.
TableOf(op, us, ts) == IF op = "userRemove" THEN us ELSE ts

\* C28: of the removes in flight together on one stored id, the one whose
\* delete is applied first answers 200 with the record and leaves the id
\* absent; the id is never stored again, so every other one finds no row at
\* its delete and answers with a failure (500) without changing a table.
C28_ConcurrentRemoves ==
    [][/\ \A s \in Slots :
             (/\ reqs[s].op \in {"todoRemove", "userRemove"} /\ reqs[s].pc = "write"
              /\ reqs'[s] # reqs[s])
                => LET id == reqs[s].id
                       op == reqs[s].op
                   IN /\ Answered /\ resp'.op = op /\ resp'.id = id
                      /\ id \notin DOMAIN TableOf(op, users', todos')
                      /\ IF id \in DOMAIN TableOf(op, users, todos)
                         THEN /\ resp'.status = HTTP_OK
                              /\ resp'.body[1].id = id
                              /\ \A o \in Slots \ {s} : reqs'[o] = reqs[o]
                         ELSE /\ resp'.status = HTTP_INTERNAL
                              /\ resp'.body = <<>>
                              /\ db' = db
       /\ \A t \in (1..todoSeq) \ DOMAIN todos : t \notin DOMAIN todos'
       /\ \A u \in (1..userSeq) \ DOMAIN users : u \notin DOMAIN users']_vars

\* Two removes of the same User were in flight together: the second answered
\* 500 and the User is absent.
C28_Witness ==
    /\ resp.op = "userRemove" /\ resp.status = HTTP_INTERNAL /\ resp.calls = 2
    /\ resp.id \notin DOMAIN users /\ resp.id <= userSeq

\* This step answered 200 to a Todo update that moves the Todo to another User.
Reassigned ==
    /\ Answered /\ resp'.op = "todoUpdate" /\ resp'.status = HTTP_OK
    /\ Has(resp'.dto.userId) /\ todos[resp'.id].userId # resp'.dto.userId[1]

\* C29: a successful Todo update that sets userId from User A to the stored
\* User B stores B as the owner: from then on a list under B holds the Todo
\* and a list under A does not, the cascade of A's removal leaves it and the
\* cascade of B's removal deletes it; and every list under a User and every
\* User removal goes by the owner that is stored.
C29_Reassign ==
    [][/\ \A id \in TodoIdArgs, A \in UserIdArgs, B \in UserIdArgs :
             (/\ Reassigned /\ id = resp'.id
              /\ A = todos[id].userId /\ B = resp'.dto.userId[1])
                => /\ B \in DOMAIN users'
                   /\ todos'[id].userId = B /\ resp'.body[1].userId = B
                   /\ id \in FindAllWhere(<<B>>)' /\ id \notin FindAllWhere(<<A>>)'
                   /\ id \in DOMAIN CascadeDelete(A)' /\ id \notin DOMAIN CascadeDelete(B)'
       /\ (/\ Answered /\ resp'.op = "todoFindAll"
           /\ Has(resp'.dto.userId) /\ resp'.dto.userId[1] \in UserIdArgs)
             => ListedIds(resp') = {t \in DOMAIN todos : todos[t].userId = resp'.dto.userId[1]}
       /\ (Answered /\ resp'.op = "userRemove" /\ resp'.status = HTTP_OK)
             => todos' = [t \in {k \in DOMAIN todos : todos[k].userId # resp'.id} |-> todos[t]]]_vars

\* User 1 was removed and a Todo stays that is older than its owner, User 2:
\* it was created under User 1 and reassigned.
C29_Witness ==
    /\ resp.op = "userRemove" /\ resp.status = HTTP_OK /\ resp.id = 1
    /\ 2 \in DOMAIN users
    /\ \E t \in DOMAIN todos :
          todos[t].userId = 2 /\ todos[t].createdAt < users[2].createdAt

\* The id is above every id stored in the table and above the table's mark.
AboveAll(id, table, seq) == id > seq /\ \A k \in DOMAIN table : id > k

\* C30: under every interleaving of creates and removes, the mark of a table
\* (the largest id it ever held, 1 for User from the start because of the
\* default User) never goes down and no stored id is above it; a create
\* answers with an id above the mark, above every stored id and, for a Todo,
\* above every id a create ever returned, and moves the mark to it: the id
\* of a removed record is never assigned again.
C30_IdsNeverReused ==
    [][/\ userSeq >= 1 /\ userSeq' >= userSeq /\ todoSeq' >= todoSeq
       /\ \A k \in DOMAIN users' : k <= userSeq'
       /\ \A k \in DOMAIN todos' \cup issued' : k <= todoSeq'
       /\ (Answered /\ resp'.op = "userCreate" /\ resp'.status = HTTP_CREATED)
             => /\ AboveAll(resp'.body[1].id, users, userSeq)
                /\ userSeq' = resp'.body[1].id
       /\ (Answered /\ resp'.op = "todoCreate" /\ resp'.status = HTTP_CREATED)
             => /\ AboveAll(resp'.body[1].id, todos, todoSeq)
                /\ \A i \in issued : resp'.body[1].id > i
                /\ todoSeq' = resp'.body[1].id
       /\ (users' # users /\ DOMAIN users' \subseteq DOMAIN users) => userSeq' = userSeq
       /\ (todos' # todos /\ DOMAIN todos' \subseteq DOMAIN todos) => todoSeq' = todoSeq]_vars

\* The default User had been removed when a create answered with User 2, and
\* the one Todo ever created had been removed as well.
C30_Witness ==
    /\ resp.op = "userCreate" /\ resp.status = HTTP_CREATED
    /\ resp.body[1].id = 2 /\ 1 \notin DOMAIN users
    /\ issued = {1} /\ DOMAIN todos = {}

====
